---- MODULE Spec2Model ----
(***************************************************************************)
(* Model of easy3d::SplineCurveInterpolation<Point_t>                      *)
(* (easy3d/core/spline_curve_interpolation.h).                             *)
(*                                                                         *)
(* A point is a sequence of integer coordinates; its dimension is the      *)
(* length of the sequence.  The inputs are restricted to point sequences   *)
(* whose consecutive distances are integers, so that the chord lengths the *)
(* code computes in floating point are exact.  The curve parameter u and   *)
(* the solver parameter t are rationals <<numerator, denominator>>.        *)
(*                                                                         *)
(* SplineInterpolation<FT> (easy3d/core/spline_interpolation.h) is the     *)
(* per-axis solver.  Only its contract is modelled: configure before fit,  *)
(* fit on an increasing parameter sequence, interpolation of the samples   *)
(* at the knots.                                                           *)
(*                                                                         *)
(* assert() is modelled as compiled in: a failed assertion ends the run    *)
(* (failed # "none"), and so does a solver that rejects a call.            *)
(***************************************************************************)
EXTENDS Integers, Sequences, FiniteSets, TLC

\* ---- bounds of the model ------------------------------------------------
MaxPoints == 3       \* points handed to set_points over the whole run
MaxFits == 2         \* non-empty set_points calls in one run

Coord == {0, 1}
Dims == {1, 2}
\* boundary values handed to set_boundary; the constructor's value is 0
LeftValues == {1}
RightValues == {2}
\* curve parameters u handed to eval_f: 0, 1/2, 1
Params == {<<0, 1>>, <<1, 2>>, <<1, 1>>}

\* ---- enum BoundaryType --------------------------------------------------
first_deriv == 1
second_deriv == 2
BoundaryType == {first_deriv, second_deriv}

VARIABLES
    left_, right_, left_value_, right_value_, linear_extrapolation_,
    dim_, interpolators_, total_length_,
    failed,      \* "none", or the assertion or solver call that ended the run
    lastOp,      \* the last call made on the interpolator
    calls,       \* the solver calls made by the last call, in order
    result,      \* <<p>>: the point the last eval_f returned; <<>> otherwise
    pre,         \* the fitted state on entry of the last set_points
    cfgAtFit,    \* <<cfg>>: the boundary configuration at the first successful fit
    lastPoints,  \* the points of the last non-empty set_points call
    nfits,       \* number of non-empty set_points calls so far
    npoints      \* number of points handed to set_points so far

vars == <<left_, right_, left_value_, right_value_, linear_extrapolation_,
          dim_, interpolators_, total_length_,
          failed, lastOp, calls, result, pre, cfgAtFit, lastPoints, nfits, npoints>>

\* ---- Point_t ------------------------------------------------------------
Points(d) == [1..d -> Coord]

RECURSIVE SumSq(_, _, _)
SumSq(p, q, j) ==
    IF j = 0 THEN 0 ELSE (p[j] - q[j]) * (p[j] - q[j]) + SumSq(p, q, j - 1)

IsSquare(n) == \E r \in 0..n : r * r = n

\* distance(p, q) of the point type, on pairs whose distance is an integer
distance(p, q) ==
    LET n == SumSq(p, q, Len(p)) IN CHOOSE r \in 0..n : r * r = n

ExactSteps(ps) ==
    \A i \in 2..Len(ps) : IsSquare(SumSq(ps[i-1], ps[i], Len(ps[i])))

SeqsOfLen(d, n) == {ps \in [1..n -> Points(d)] : ExactSteps(ps)}

PointSeqs == UNION {SeqsOfLen(d, n) : d \in Dims, n \in 0..MaxPoints}

\* ---- SplineInterpolation<FT>: the per-axis solver -------------------------
S_first_deriv == "S::first_deriv"
S_second_deriv == "S::second_deriv"

NewSolver ==
    [left |-> S_second_deriv, left_value |-> 0,
     right |-> S_second_deriv, right_value |-> 0,
     linear_extrapolation |-> FALSE,
     x_ |-> <<>>, y_ |-> <<>>, cubic |-> TRUE]

SolverFitted(s) == Len(s.x_) > 0

StrictlyIncreasing(x) == \A i \in 2..Len(x) : x[i-1] < x[i]

\* configure: a precondition violation once the solver holds data
Solver_set_boundary(s, l, lv, r, rv, le) ==
    IF SolverFitted(s)
    THEN [ok |-> FALSE, s |-> s]
    ELSE [ok |-> TRUE,
          s |-> [s EXCEPT !.left = l, !.left_value = lv,
                          !.right = r, !.right_value = rv,
                          !.linear_extrapolation = le]]

\* fit: replaces any prior fit; a parameter sequence that is not strictly
\* increasing is tolerated or rejected (reject) per the solver's contract
Solver_set_data(s, x, y, cubic, reject) ==
    IF reject /\ ~StrictlyIncreasing(x)
    THEN [ok |-> FALSE, s |-> s]
    ELSE [ok |-> TRUE, s |-> [s EXCEPT !.x_ = x, !.y_ = y, !.cubic = cubic]]

\* index of the last knot <= t (the first knot when t is left of all knots)
KnotIndex(s, t) ==
    LET below == {i \in 1..Len(s.x_) : s.x_[i] * t[2] <= t[1]}
    IN IF below = {} THEN 1 ELSE CHOOSE i \in below : \A k \in below : k <= i

\* evaluate: the sample at a knot; elsewhere the value of the fitted piece
\* seg at offset h from its knot, which the model keeps symbolic
Solver_eval(s, t) ==
    IF ~SolverFitted(s)
    THEN [knot |-> FALSE, y |-> 0, seg |-> 0, h |-> <<0, 1>>]
    ELSE LET idx == KnotIndex(s, t)
             hn  == t[1] - s.x_[idx] * t[2]
         IN IF hn = 0
            THEN [knot |-> TRUE, y |-> s.y_[idx], seg |-> idx, h |-> <<0, 1>>]
            ELSE [knot |-> FALSE, y |-> 0, seg |-> idx, h |-> <<hn, t[2]>>]

\* ---- SplineCurveInterpolation<Point_t> -----------------------------------
Config ==
    [left |-> left_, left_value |-> left_value_,
     right |-> right_, right_value |-> right_value_,
     linear_extrapolation |-> linear_extrapolation_]

DefaultConfig ==
    [left |-> second_deriv, left_value |-> 0,
     right |-> second_deriv, right_value |-> 0,
     linear_extrapolation |-> FALSE]

\* the condition asserted on entry of set_boundary
AssertNoPoints_off(interpolators) == TRUE
AssertNoPoints(interpolators) == Len(interpolators) = 0

\* translation of the boundary kind into the solver's enum
ToSolverType(b) == IF b = first_deriv THEN S_first_deriv ELSE S_second_deriv

\* the early return of set_points on an empty sequence; st holds dim_,
\* total_length_, interpolators_, and the outcome of the call
EmptyReturn_clears(st) ==
    [st EXCEPT !.dim_ = 0, !.total_length_ = 0, !.interpolators_ = <<>>]
EmptyReturn(st) == st

\* T[1..n] of set_points: the running sum t of the distances of consecutive points
RECURSIVE ChordLengths_notsummed(_, _)
ChordLengths_notsummed(points, n) ==
    IF n = 1 THEN <<0>>
    ELSE Append(ChordLengths_notsummed(points, n - 1),
                distance(points[n-1], points[n]))
RECURSIVE ChordLengths(_, _)
ChordLengths(points, n) ==
    IF n = 1 THEN <<0>>
    ELSE LET T == ChordLengths(points, n - 1)
         IN Append(T, T[n-1] + distance(points[n-1], points[n]))

\* coords[j] of set_points
AxisCoords(points, j) == [i \in 1..Len(points) |-> points[i][j]]

\* std::vector::resize: keeps the first n elements, appends default-constructed ones
Resize(v, n) ==
    IF n <= Len(v) THEN SubSeq(v, 1, n)
    ELSE v \o [k \in 1..(n - Len(v)) |-> NewSolver]

\* the cubic_spline parameter of the solver's set_data, which set_points leaves
\* at its default
SetDataDefault == TRUE

SolverCall(i, op, l, lv, r, rv, le, x, y, cubic, fitted) ==
    [slot |-> i, op |-> op, left |-> l, left_value |-> lv,
     right |-> r, right_value |-> rv, linear_extrapolation |-> le,
     x |-> x, y |-> y, cubic |-> cubic, fitted |-> fitted]

\* the loop of set_points over the axes, from axis i on
RECURSIVE FitAxes(_, _, _, _, _, _, _)
FitAxes(st, i, cfg, T, points, cubic_spline, reject) ==
    IF i > st.dim_ \/ st.failed # "none" THEN st
    ELSE
      LET s  == st.interpolators_[i]
          l  == ToSolverType(cfg.left)
          r  == ToSolverType(cfg.right)
          c1 == SolverCall(i, "set_boundary", l, cfg.left_value, r, cfg.right_value,
                           cubic_spline, <<>>, <<>>, TRUE, SolverFitted(s))
          r1 == Solver_set_boundary(s, l, cfg.left_value, r, cfg.right_value,
                                    cubic_spline)
          y  == AxisCoords(points, i)
          c2 == SolverCall(i, "set_data", "", 0, "", 0, FALSE, T, y,
                           SetDataDefault, SolverFitted(r1.s))
          r2 == Solver_set_data(r1.s, T, y, SetDataDefault, reject)
      IN IF ~r1.ok
         THEN [st EXCEPT !.failed = "solver set_boundary",
                         !.calls = Append(@, c1)]
         ELSE IF ~r2.ok
         THEN [st EXCEPT !.interpolators_[i] = r1.s,
                         !.failed = "solver set_data",
                         !.calls = @ \o <<c1, c2>>]
         ELSE FitAxes([st EXCEPT !.interpolators_[i] = r2.s,
                                 !.calls = @ \o <<c1, c2>>],
                      i + 1, cfg, T, points, cubic_spline, reject)

set_points(cfg, st, points, cubic_spline, reject) ==
    IF points = <<>> THEN EmptyReturn(st)
    ELSE
      LET d == Len(points[1])
          T == ChordLengths(points, Len(points))
      IN FitAxes([st EXCEPT !.dim_ = d,
                            !.total_length_ = T[Len(points)],
                            !.interpolators_ = Resize(st.interpolators_, d)],
                 1, cfg, T, points, cubic_spline, reject)

\* the solver parameter of eval_f: u * total_length_
EvalParam_unscaled(u, total) == u
EvalParam(u, total) == <<u[1] * total, u[2]>>

\* eval_f: coordinate i of the returned point is written from solver i;
\* with dim_ = 0 nothing is written and the default-constructed point returns
eval_f(dim, interpolators, total, u) ==
    [i \in 1..dim |-> Solver_eval(interpolators[i], EvalParam(u, total))]

\* ---- the state machine ----------------------------------------------------
NoPre == [dim_ |-> 0, total_length_ |-> 0, interpolators_ |-> <<>>,
          cfg |-> DefaultConfig]

Op(op, points, cubic, reject, u, changes) ==
    [op |-> op, points |-> points, cubic |-> cubic, reject |-> reject,
     u |-> u, changes |-> changes]

Init ==
    /\ left_ = second_deriv /\ right_ = second_deriv
    /\ left_value_ = 0 /\ right_value_ = 0
    /\ linear_extrapolation_ = FALSE
    /\ dim_ = 0
    /\ interpolators_ = <<>>
    /\ total_length_ = 0
    /\ failed = "none"
    /\ lastOp = Op("new", <<>>, FALSE, FALSE, <<0, 1>>, FALSE)
    /\ calls = <<>>
    /\ result = <<>>
    /\ pre = NoPre
    /\ cfgAtFit = <<>>
    /\ lastPoints = <<>>
    /\ nfits = 0
    /\ npoints = 0

SetBoundary(left, left_value, right, right_value, linear_extrapolation) ==
    LET new == [left |-> left, left_value |-> left_value,
                right |-> right, right_value |-> right_value,
                linear_extrapolation |-> linear_extrapolation]
    IN
    /\ failed = "none"
    /\ IF AssertNoPoints(interpolators_)
       THEN /\ left_' = left
            /\ right_' = right
            /\ left_value_' = left_value
            /\ right_value_' = right_value
            /\ linear_extrapolation_' = linear_extrapolation
            /\ failed' = "none"
       ELSE /\ failed' = "assert set_boundary"
            /\ UNCHANGED <<left_, right_, left_value_, right_value_,
                           linear_extrapolation_>>
    /\ lastOp' = Op("set_boundary", <<>>, FALSE, FALSE, <<0, 1>>, new # Config)
    /\ calls' = <<>>
    /\ result' = <<>>
    /\ pre' = NoPre
    /\ UNCHANGED <<dim_, interpolators_, total_length_, cfgAtFit, lastPoints,
                   nfits, npoints>>

SetPoints(points, cubic_spline, reject) ==
    LET st == set_points(Config,
                         [dim_ |-> dim_, total_length_ |-> total_length_,
                          interpolators_ |-> interpolators_,
                          failed |-> "none", calls |-> <<>>],
                         points, cubic_spline, reject)
    IN
    /\ failed = "none"
    /\ points # <<>> => /\ nfits < MaxFits
                        /\ npoints + Len(points) <= MaxPoints
    /\ reject => /\ points # <<>>
                 /\ ~StrictlyIncreasing(ChordLengths(points, Len(points)))
    /\ dim_' = st.dim_
    /\ total_length_' = st.total_length_
    /\ interpolators_' = st.interpolators_
    /\ failed' = st.failed
    /\ calls' = st.calls
    /\ lastOp' = Op("set_points", points, cubic_spline, reject, <<0, 1>>, FALSE)
    /\ result' = <<>>
    /\ pre' = [dim_ |-> dim_, total_length_ |-> total_length_,
               interpolators_ |-> interpolators_, cfg |-> Config]
    /\ cfgAtFit' = IF cfgAtFit = <<>> /\ points # <<>> /\ st.failed = "none"
                   THEN <<Config>> ELSE cfgAtFit
    /\ lastPoints' = IF points = <<>> THEN lastPoints ELSE points
    /\ nfits' = IF points = <<>> THEN nfits ELSE nfits + 1
    /\ npoints' = npoints + Len(points)
    /\ UNCHANGED <<left_, right_, left_value_, right_value_,
                   linear_extrapolation_>>

EvalF(u) ==
    /\ failed = "none"
    /\ result' = <<eval_f(dim_, interpolators_, total_length_, u)>>
    /\ lastOp' = Op("eval_f", <<>>, FALSE, FALSE, u, FALSE)
    /\ calls' = <<>>
    /\ pre' = NoPre
    /\ UNCHANGED <<left_, right_, left_value_, right_value_,
                   linear_extrapolation_, dim_, interpolators_, total_length_,
                   failed, cfgAtFit, lastPoints, nfits, npoints>>

Next ==
    \/ \E l \in BoundaryType, lv \in LeftValues, r \in BoundaryType, rv \in RightValues,
          le \in BOOLEAN : SetBoundary(l, lv, r, rv, le)
    \/ \E points \in PointSeqs, cubic_spline \in BOOLEAN, reject \in BOOLEAN :
          SetPoints(points, cubic_spline, reject)
    \/ \E u \in Params : EvalF(u)

Spec == Init /\ [][Next]_vars

\* ---- properties ------------------------------------------------------------
Constructed == [dim_ |-> 0, total_length_ |-> 0, interpolators_ |-> <<>>,
                failed |-> "none", calls |-> <<>>]

SolverFailures == {"solver set_boundary", "solver set_data"}

FitCall == lastOp.op = "set_points" /\ lastOp.points # <<>>

ExamplePoints == <<<<0, 0>>, <<1, 0>>, <<1, 1>>>>

\* C1: once a non-empty point sequence has been fitted, a call of set_boundary
\* trips the assertion, and the stored left/right kind, left/right value and
\* linear-extrapolation flag stay those of the first successful fit.
C1_BoundaryFrozenAfterFit ==
    /\ (lastOp.op = "set_boundary" /\ nfits > 0) => failed = "assert set_boundary"
    /\ cfgAtFit # <<>> => Config = cfgAtFit[1]

C1_Witness ==
    /\ lastOp.op = "set_boundary" /\ lastOp.changes
    /\ nfits > 0
    /\ failed = "assert set_boundary"

\* C2: set_points with an empty point sequence changes nothing, fitted or not:
\* dimension, total length, solvers and boundary configuration are those on
\* entry, and no solver call is made.
C2_EmptySetPointsNoOp ==
    (lastOp.op = "set_points" /\ lastOp.points = <<>>) =>
        /\ dim_ = pre.dim_
        /\ total_length_ = pre.total_length_
        /\ interpolators_ = pre.interpolators_
        /\ Config = pre.cfg
        /\ calls = <<>>
        /\ failed = "none"

C2_Witness ==
    /\ lastOp.op = "set_points" /\ lastOp.points = <<>>
    /\ dim_ = 2 /\ Len(interpolators_) = 2 /\ total_length_ > 0

\* C3: after a second set_points the state (dimension, total length, solvers)
\* is the state a set_points with the same points gives on a newly
\* constructed interpolator with the same boundary configuration.
C3_RefitEqualsFreshFit ==
    (FitCall /\ nfits = 2) =>
        LET fresh == set_points(Config, Constructed, lastOp.points,
                                lastOp.cubic, lastOp.reject)
        IN /\ failed = fresh.failed
           /\ dim_ = fresh.dim_
           /\ total_length_ = fresh.total_length_
           /\ interpolators_ = fresh.interpolators_

\* C4: every solver is configured with the stored linear-extrapolation flag
\* and the stored left/right kind and value, whatever cubic_spline is.
C4_StoredFlagConfigured ==
    \A k \in 1..Len(calls) :
        calls[k].op = "set_boundary" =>
            /\ calls[k].linear_extrapolation = linear_extrapolation_
            /\ calls[k].left = ToSolverType(left_)
            /\ calls[k].left_value = left_value_
            /\ calls[k].right = ToSolverType(right_)
            /\ calls[k].right_value = right_value_

\* C5: every solver is fitted in the mode cubic_spline selects: cubic when it
\* is true, linear when it is false.
C5_CubicArgumentSelectsMode ==
    FitCall =>
        /\ \A k \in 1..Len(calls) :
              calls[k].op = "set_data" => calls[k].cubic = lastOp.cubic
        /\ failed = "none" =>
              \A j \in 1..dim_ : interpolators_[j].cubic = lastOp.cubic

\* C6: eval_f on an interpolator no non-empty point sequence was fitted on
\* fails; it returns no point.
C6_EvalBeforeFitFails ==
    (lastOp.op = "eval_f" /\ nfits = 0) => (failed # "none" /\ result = <<>>)

\* C7: the parameters handed to every solver are the cumulative chord lengths
\* of the points: they start at 0, each step is the distance of two
\* consecutive points, they increase strictly exactly where the points
\* differ, they are the same for every axis, and the last one is the stored
\* total length.
C7_ChordLengthParameters ==
    FitCall =>
        LET P == lastOp.points
            n == Len(P)
        IN /\ \A k \in 1..Len(calls) :
                 calls[k].op = "set_data" =>
                    LET T == calls[k].x
                    IN /\ Len(T) = n
                       /\ T[1] = 0
                       /\ \A i \in 2..n :
                             /\ T[i] >= T[i-1]
                             /\ (T[i] - T[i-1]) * (T[i] - T[i-1])
                                   = SumSq(P[i-1], P[i], Len(P[i]))
                             /\ (T[i] > T[i-1]) <=> (P[i] # P[i-1])
                       /\ T[n] = total_length_
                       /\ T = calls[2].x
           /\ failed = "none" =>
                 /\ Len(calls) = 2 * dim_
                 /\ \A j \in 1..dim_ :
                       /\ calls[2 * j].op = "set_data" /\ calls[2 * j].slot = j
                       /\ interpolators_[j].x_ = calls[2 * j].x

C7_Witness ==
    /\ FitCall /\ lastOp.points = ExamplePoints
    /\ failed = "none"
    /\ total_length_ = 2
    /\ interpolators_[1].x_ = <<0, 1, 2>> /\ interpolators_[2].x_ = <<0, 1, 2>>

\* C8: after a fit, eval_f(0) is the first input point and eval_f(1) the last
\* one, coordinate j coming from solver j.
C8_EndpointsInterpolated ==
    (lastOp.op = "eval_f" /\ nfits > 0) =>
        LET p == result[1]
            P == lastPoints
            IsPoint(q) == /\ Len(p) = Len(q)
                          /\ \A j \in 1..Len(q) : p[j].knot /\ p[j].y = q[j]
        IN /\ failed = "none"
           /\ lastOp.u = <<0, 1>> => IsPoint(P[1])
           /\ lastOp.u = <<1, 1>> => IsPoint(P[Len(P)])

C8_Witness ==
    /\ lastOp.op = "eval_f" /\ lastOp.u = <<1, 1>>
    /\ lastPoints = ExamplePoints
    /\ Len(result[1]) = 2
    /\ result[1][1].y = 1 /\ result[1][2].y = 1

\* C9: a set_points that fails in a solver call leaves dimension, total length
\* and solvers as they were on entry.
C9_FailedFitChangesNothing ==
    (FitCall /\ failed \in SolverFailures) =>
        /\ dim_ = pre.dim_
        /\ total_length_ = pre.total_length_
        /\ interpolators_ = pre.interpolators_

\* C10: no solver is configured (set_boundary) after that same solver has
\* been fitted (set_data).
C10_NoConfigureAfterFit ==
    \A k \in 1..Len(calls) : calls[k].op = "set_boundary" => ~calls[k].fitted

====
